---- MODULE Spec2Model ----
(***************************************************************************)
(* SoccerGame: team formation and referee rendezvous with System V         *)
(* semaphores and shared memory.  Life cycles of the player                *)
(* (src/unnamed/part_000) and of the goalie (semSharedMemGoalie.c).        *)
(* Every semaphore operation is one step of the process that performs it,  *)
(* together with the statements that follow it up to the next semaphore    *)
(* operation.                                                              *)
(***************************************************************************)
EXTENDS Integers, FiniteSets, Sequences, TLC

\* ------------------------------------------------------------------------
\* Configuration (probConst.h).  The pool and team sizes are scaled down.
NUMPLAYERS == 5
NUMGOALIES == 3
NUMTEAMPLAYERS == 2
NUMTEAMGOALIES == 1

Players == 0 .. (NUMPLAYERS - 1)
Goalies == 0 .. (NUMGOALIES - 1)
PL == "PL"
GL == "GL"
Actors == ({PL} \X Players) \cup ({GL} \X Goalies)
Kind(a) == a[1]
Id(a) == a[2]
NoOne == <<"none", 0>>

\* per-kind team quota, as used in the two arrival tests
perTeam(kind) == IF kind = PL THEN NUMTEAMPLAYERS ELSE NUMTEAMGOALIES

\* members the referee releases: both teams, complete
NumMembers == 2 * (NUMTEAMPLAYERS + NUMTEAMGOALIES)

\* ------------------------------------------------------------------------
\* Status values of probConst.h
ARRIVING == "ARRIVING"
WAITING_TEAM == "WAITING_TEAM"
FORMING_TEAM == "FORMING_TEAM"
WAITING_START_1 == "WAITING_START_1"
WAITING_START_2 == "WAITING_START_2"
PLAYING_1 == "PLAYING_1"
PLAYING_2 == "PLAYING_2"
LATE == "LATE"

\* Semaphores of the set (sharedDataSync.h), as used by the two processes
SemNames == {"mutex", "playersWaitTeam", "goaliesWaitTeam", "playerRegistered",
             "refereeWaitTeams", "playersWaitReferee", "playing", "playersWaitEnd"}

VARIABLES
    playersArrived,   \* sh->fSt.playersArrived
    playersFree,      \* sh->fSt.playersFree
    goaliesArrived,   \* sh->fSt.goaliesArrived
    goaliesFree,      \* sh->fSt.goaliesFree
    teamId,           \* sh->fSt.teamId
    playerStat,       \* sh->fSt.st.playerStat[]
    goalieStat,       \* sh->fSt.st.goalieStat[]
    sem,              \* values of the semaphores of the set semgid
    pc,               \* position of every player and goalie process
    ret,              \* local variable ret / team of every process
    i,                \* loop counter of a captain
    pcR,              \* position of the referee
    nR,               \* loop counter of the referee
    holder,           \* history: the process inside a critical region it has not left
    nForm,            \* history: number of formations started so far
    lead,             \* history: the formation a captain leads (0: none)
    called,           \* history: the formation in progress when a recruit woke (0: none)
    relPl,            \* history: calls of players issued, per formation
    relGl,            \* history: calls of goalies issued, per formation
    acksGot,          \* history: registrations collected by the captain, per formation
    acksSent,         \* history: registrations sent by recruits, per formation
    saved             \* the state last written to the log by saveState

counters == <<playersArrived, playersFree, goaliesArrived, goaliesFree, teamId>>
status == <<playerStat, goalieStat>>
referee == <<pcR, nR>>
history == <<holder, nForm, lead, called, relPl, relGl, acksGot, acksSent>>
vars == <<counters, status, sem, pc, ret, i, referee, history, saved>>

\* FULL_STAT: what saveState is given (&sh->fSt)
FullState == <<counters, status>>

Formations == 1 .. 2

Stat(a) == IF Kind(a) = PL THEN playerStat[Id(a)] ELSE goalieStat[Id(a)]
Arrived(kind) == IF kind = PL THEN playersArrived ELSE goaliesArrived
Free(kind) == IF kind = PL THEN playersFree ELSE goaliesFree

\* ------------------------------------------------------------------------
\* semaphore.h: semDown blocks while the value is 0; semUp never blocks
semCanDown(s) == sem[s] > 0
semDown(s) == [sem EXCEPT ![s] = @ - 1]
semUp(s) == [sem EXCEPT ![s] = @ + 1]

\* ------------------------------------------------------------------------
\* history bookkeeping (no effect on the program state)
bump(f, t) == IF t \in DOMAIN f THEN [f EXCEPT ![t] = @ + 1] ELSE f

\* the process that is inside the formation loops of a captain, if any
FormingPcs == {"cap_down_pl", "cap_down_gl", "gcap_down"}
Forming == {c \in Actors : pc[c] \in FormingPcs}

\* the formation of the captain that is inside the critical region (0: none)
CurrentFormation == IF holder \in Actors THEN lead[holder] ELSE 0

\* ------------------------------------------------------------------------
\* Decisions taken inside the arrival critical section

\* variant: the pool test lets one arrival too many in
IsLateOffByOne(arrived, kind) == ~(arrived <= 2 * perTeam(kind) + 1)

\* part_000:187 / Goalie.c:184 (the else branch): more arrivals than two teams need
IsLate(arrived, kind) == ~(arrived <= 2 * perTeam(kind))

\* variant: the captain test needs one free player more than a team has
CanFormStrict(pf, gf) == pf > NUMTEAMPLAYERS /\ gf >= NUMTEAMGOALIES

\* variant: the captain test ignores the free goalies
CanFormPlayersOnly(pf, gf) == pf >= NUMTEAMPLAYERS

\* part_000:190 / Goalie.c:187: enough free players and free goalies for a team
CanForm(pf, gf) == pf >= NUMTEAMPLAYERS /\ gf >= NUMTEAMGOALIES

\* variant: the player captain forgets that it is a player of the team itself
PlayerCaptainCallsAll == NUMTEAMPLAYERS

\* part_000:196: a player captain calls NUMTEAMPLAYERS - 1 players
PlayerCaptainCalls == NUMTEAMPLAYERS - 1

\* variant: the goalie captain calls one player too many
GoalieCaptainCallsOneMore == NUMTEAMPLAYERS + 1

\* Goalie.c:192,201: a goalie captain calls NUMTEAMPLAYERS players
GoalieCaptainCalls == NUMTEAMPLAYERS

\* variant: the goalie captain stops waiting one registration early
GoalieCaptainAcksOneLess == NUMTEAMPLAYERS - 1

\* Goalie.c:201: a goalie captain waits for NUMTEAMPLAYERS registrations
GoalieCaptainAcks == NUMTEAMPLAYERS

\* variant: the recruit takes teamId for already moved to the next team
RecruitTeamPrev(tid) == tid - 1

\* part_000:257 / Goalie.c:248: the team a recruit takes after it is called
RecruitTeam(tid) == tid

\* variant: the two states are exchanged
WaitingStartSwapped(team, old) ==
    IF team = 1 THEN WAITING_START_2
    ELSE IF team = 2 THEN WAITING_START_1
    ELSE old

\* part_000:296-300 / Goalie.c:277-281
WaitingStartStat(team, old) ==
    IF team = 1 THEN WAITING_START_1
    ELSE IF team = 2 THEN WAITING_START_2
    ELSE old

\* variant: the two states are exchanged
PlayingStatSwapped(team, old) ==
    IF team = 1 THEN PLAYING_2
    ELSE IF team = 2 THEN PLAYING_1
    ELSE old

\* part_000:332-336 / Goalie.c:318-322
PlayingStat(team, old) ==
    IF team = 1 THEN PLAYING_1
    ELSE IF team = 2 THEN PLAYING_2
    ELSE old

\* variant: the state is not written, the log keeps the previous one
saveStateStale(fSt) == saved

\* saveState (nFic, &sh->fSt): the log gets the state as it is at the call
saveState(fSt) == fSt

\* variant: the captain takes the team id and leaves teamId as it is
NextTeamIdSame(tid) == tid

\* part_000:226 / Goalie.c:210: ret = sh->fSt.teamId++
NextTeamId(tid) == tid + 1

\* variant: whoever is not a recruit tells the referee
TeamsReadyNotWaiting(stat) == IF stat # WAITING_TEAM THEN 1 ELSE 0

\* part_000:266-272 / Goalie.c:230-236: after the critical region the process
\* in state FORMING_TEAM does one semUp (refereeWaitTeams), the others none
TeamsReady(stat) == IF stat = FORMING_TEAM THEN 1 ELSE 0

\* variant: main does not test the team
AfterConstituteAlways(team) == "wr"

\* variant: main goes from constituteTeam straight to playUntilEnd
AfterConstituteSkipsWait(team) == IF team # 0 THEN "pl" ELSE "done"

\* main: the life cycle goes on only with a team (part_000:119, Goalie.c:117)
AfterConstitute(team) == IF team # 0 THEN "wr" ELSE "done"

\* ------------------------------------------------------------------------
\* Player (src/unnamed/part_000)

\* arrive, 142-156: critical region with state ARRIVING and saveState
playerArrive(p) ==
    LET a == <<PL, p>> IN
    /\ pc[a] = "arrive"
    /\ semCanDown("mutex")
    /\ playerStat' = [playerStat EXCEPT ![p] = ARRIVING]
    /\ pc' = [pc EXCEPT ![a] = "ct"]
    /\ UNCHANGED <<counters, goalieStat, sem, ret, i, referee, history>>
    /\ saved' = saveState(FullState')

\* playerConstituteTeam, 178-241: enter the critical region, count the arrival
\* and take the role.  A late player or a recruit leaves the critical region
\* (243) and goes on at 249, where the late player finds neither of the two
\* states tested and returns; a captain keeps the mutex and makes its first call.
playerConstituteTeam(p) ==
    LET a == <<PL, p>>
        arrived == playersArrived + 1
        free == playersFree + 1
    IN
    /\ pc[a] = "ct"
    /\ semCanDown("mutex")
    /\ playersArrived' = arrived
    /\ ret' = [ret EXCEPT ![a] = 0]
    /\ IF ~IsLate(arrived, PL)
       THEN IF CanForm(free, goaliesFree)
            THEN \* captain, 193
                 /\ playerStat' = [playerStat EXCEPT ![p] = FORMING_TEAM]
                 /\ i' = [i EXCEPT ![a] = 0]
                 /\ holder' = a
                 /\ nForm' = nForm + 1
                 /\ lead' = [lead EXCEPT ![a] = nForm + 1]
                 /\ IF 0 < PlayerCaptainCalls
                    THEN \* 196-199: first call of a player
                         /\ playersFree' = free
                         /\ sem' = [sem EXCEPT !["mutex"] = @ - 1,
                                               !["playersWaitTeam"] = @ + 1]
                         /\ relPl' = bump(relPl, nForm + 1)
                         /\ pc' = [pc EXCEPT ![a] = "cap_down_pl"]
                         /\ UNCHANGED relGl
                    ELSE \* 211-214: no player to call, the goalie is called
                         /\ playersFree' = free - NUMTEAMPLAYERS
                         /\ sem' = [sem EXCEPT !["mutex"] = @ - 1,
                                               !["goaliesWaitTeam"] = @ + 1]
                         /\ relGl' = bump(relGl, nForm + 1)
                         /\ pc' = [pc EXCEPT ![a] = "cap_down_gl"]
                         /\ UNCHANGED relPl
            ELSE \* recruit, 231-232, 243, 249
                 /\ playerStat' = [playerStat EXCEPT ![p] = WAITING_TEAM]
                 /\ playersFree' = free
                 /\ pc' = [pc EXCEPT ![a] = "rec_down"]
                 /\ UNCHANGED <<sem, i, holder, nForm, lead, relPl, relGl>>
       ELSE \* late, 237-240, 243, 275
            /\ playerStat' = [playerStat EXCEPT ![p] = LATE]
            /\ playersFree' = free - 1
            /\ sem' = [sem EXCEPT !["refereeWaitTeams"] = @ + TeamsReady(LATE)]
            /\ pc' = [pc EXCEPT ![a] = AfterConstitute(0)]
            /\ UNCHANGED <<i, holder, nForm, lead, relPl, relGl>>
    /\ UNCHANGED <<goaliesArrived, goaliesFree, teamId, goalieStat, referee,
                   called, acksGot, acksSent>>
    /\ saved' = IF holder' = <<PL, p>> THEN saved ELSE saveState(FullState')

\* 205-214: the captain waits for the called player's registration, then calls
\* the next player or, after the last one, decrements the free players and
\* calls the goalie
playerAckPlayer(p) ==
    LET a == <<PL, p>> IN
    /\ pc[a] = "cap_down_pl"
    /\ semCanDown("playerRegistered")
    /\ acksGot' = bump(acksGot, lead[a])
    /\ IF i[a] + 1 < PlayerCaptainCalls
       THEN /\ i' = [i EXCEPT ![a] = @ + 1]
            /\ sem' = [sem EXCEPT !["playerRegistered"] = @ - 1,
                                  !["playersWaitTeam"] = @ + 1]
            /\ relPl' = bump(relPl, lead[a])
            /\ UNCHANGED <<pc, playersFree, relGl>>
       ELSE /\ i' = [i EXCEPT ![a] = 0]
            /\ playersFree' = playersFree - NUMTEAMPLAYERS
            /\ sem' = [sem EXCEPT !["playerRegistered"] = @ - 1,
                                  !["goaliesWaitTeam"] = @ + 1]
            /\ relGl' = bump(relGl, lead[a])
            /\ pc' = [pc EXCEPT ![a] = "cap_down_gl"]
            /\ UNCHANGED relPl
    /\ UNCHANGED <<playersArrived, goaliesArrived, goaliesFree, teamId, status, ret,
                   referee, holder, nForm, lead, called, acksSent>>
    /\ UNCHANGED saved

\* 220-227, 243, 266-275: the captain waits for the goalie's registration, takes
\* the team id, moves teamId to the next team, leaves the critical region,
\* tells the referee that a team is ready and returns
playerAckGoalie(p) ==
    LET a == <<PL, p>> IN
    /\ pc[a] = "cap_down_gl"
    /\ semCanDown("playerRegistered")
    /\ acksGot' = bump(acksGot, lead[a])
    /\ goaliesFree' = goaliesFree - NUMTEAMGOALIES
    /\ ret' = [ret EXCEPT ![a] = teamId]
    /\ teamId' = NextTeamId(teamId)
    /\ sem' = [sem EXCEPT !["playerRegistered"] = @ - 1,
                          !["mutex"] = @ + 1,
                          !["refereeWaitTeams"] = @ + TeamsReady(Stat(a))]
    /\ holder' = NoOne
    /\ pc' = [pc EXCEPT ![a] = AfterConstitute(teamId)]
    /\ UNCHANGED <<playersArrived, playersFree, goaliesArrived, status, i, referee,
                   nForm, lead, called, relPl, relGl, acksSent>>
    /\ saved' = saveState(FullState')

\* 252: the recruit waits to be called
playerWaitTeam(p) ==
    LET a == <<PL, p>> IN
    /\ pc[a] = "rec_down"
    /\ semCanDown("playersWaitTeam")
    /\ sem' = semDown("playersWaitTeam")
    /\ called' = [called EXCEPT ![a] = CurrentFormation]
    /\ pc' = [pc EXCEPT ![a] = "rec_read"]
    /\ UNCHANGED <<counters, status, ret, i, referee,
                   holder, nForm, lead, relPl, relGl, acksGot, acksSent>>
    /\ UNCHANGED saved

\* 257: the recruit reads the shared teamId (outside the critical region)
playerReadTeam(p) ==
    LET a == <<PL, p>> IN
    /\ pc[a] = "rec_read"
    /\ ret' = [ret EXCEPT ![a] = RecruitTeam(teamId)]
    /\ pc' = [pc EXCEPT ![a] = "rec_up"]
    /\ UNCHANGED <<counters, status, sem, i, referee, history>>
    /\ UNCHANGED saved

\* 260-275: the recruit acknowledges its registration and returns
playerRegister(p) ==
    LET a == <<PL, p>> IN
    /\ pc[a] = "rec_up"
    /\ sem' = semUp("playerRegistered")
    /\ acksSent' = bump(acksSent, called[a])
    /\ pc' = [pc EXCEPT ![a] = AfterConstitute(ret[a])]
    /\ UNCHANGED <<counters, status, ret, i, referee,
                   holder, nForm, lead, called, relPl, relGl, acksGot>>
    /\ UNCHANGED saved

\* variant: the critical region is left only after the wait for the referee
playerWaitRefereeHolding(p) ==
    LET a == <<PL, p>> IN
    /\ pc[a] = "wr"
    /\ semCanDown("mutex")
    /\ sem' = semDown("mutex")
    /\ holder' = a
    /\ playerStat' = [playerStat EXCEPT ![p] = WaitingStartStat(ret[a], @)]
    /\ pc' = [pc EXCEPT ![a] = "wr_wait"]
    /\ UNCHANGED <<counters, goalieStat, ret, i, referee,
                   nForm, lead, called, relPl, relGl, acksGot, acksSent>>
    /\ saved' = saveState(FullState')

\* waitReferee, 289-304: critical region with state WAITING_START and saveState
playerWaitReferee(p) ==
    LET a == <<PL, p>> IN
    /\ pc[a] = "wr"
    /\ semCanDown("mutex")
    /\ playerStat' = [playerStat EXCEPT ![p] = WaitingStartStat(ret[a], @)]
    /\ pc' = [pc EXCEPT ![a] = "wr_wait"]
    /\ UNCHANGED <<counters, goalieStat, sem, ret, i, referee, history>>
    /\ saved' = saveState(FullState')

\* waitReferee, 310: wait for the referee to start the match
playerWaitStart(p) ==
    LET a == <<PL, p>> IN
    /\ pc[a] = "wr_wait"
    /\ semCanDown("playersWaitReferee")
    /\ sem' = semDown("playersWaitReferee")
    /\ pc' = [pc EXCEPT ![a] = "pl"]
    /\ UNCHANGED <<counters, status, ret, i, referee, history>>
    /\ UNCHANGED saved

\* playUntilEnd, 327-345: critical region with state PLAYING, the signal to the
\* referee and saveState
playerPlayUntilEnd(p) ==
    LET a == <<PL, p>> IN
    /\ pc[a] = "pl"
    /\ semCanDown("mutex")
    /\ playerStat' = [playerStat EXCEPT ![p] = PlayingStat(ret[a], @)]
    /\ sem' = semUp("playing")
    /\ pc' = [pc EXCEPT ![a] = "pl_end"]
    /\ UNCHANGED <<counters, goalieStat, ret, i, referee, history>>
    /\ saved' = saveState(FullState')

\* playUntilEnd, 350: wait for the referee to end the match
playerWaitEnd(p) ==
    LET a == <<PL, p>> IN
    /\ pc[a] = "pl_end"
    /\ semCanDown("playersWaitEnd")
    /\ sem' = semDown("playersWaitEnd")
    /\ pc' = [pc EXCEPT ![a] = "done"]
    /\ UNCHANGED <<counters, status, ret, i, referee, history>>
    /\ UNCHANGED saved

\* ------------------------------------------------------------------------
\* Goalie (src/semaphore_soccergame/src/semSharedMemGoalie.c)

\* arrive, 140-153
goalieArrive(g) ==
    LET a == <<GL, g>> IN
    /\ pc[a] = "arrive"
    /\ semCanDown("mutex")
    /\ goalieStat' = [goalieStat EXCEPT ![g] = ARRIVING]
    /\ pc' = [pc EXCEPT ![a] = "ct"]
    /\ UNCHANGED <<counters, playerStat, sem, ret, i, referee, history>>
    /\ saved' = saveState(FullState')

\* goalieConstituteTeam, 175-222: enter the critical region, count the arrival
\* and take the role.  A late goalie or a recruit leaves the critical region
\* (224) and goes on at 230; a captain keeps the mutex and calls its players,
\* all of them before it waits for the first registration (192-199).
goalieConstituteTeam(g) ==
    LET a == <<GL, g>>
        arrived == goaliesArrived + 1
        free == goaliesFree + 1
    IN
    /\ pc[a] = "ct"
    /\ semCanDown("mutex")
    /\ goaliesArrived' = arrived
    /\ ret' = [ret EXCEPT ![a] = 0]
    /\ IF ~IsLate(arrived, GL)
       THEN IF CanForm(playersFree, free)
            THEN \* captain, 189-199
                 /\ goalieStat' = [goalieStat EXCEPT ![g] = FORMING_TEAM]
                 /\ goaliesFree' = free - NUMTEAMGOALIES
                 /\ i' = [i EXCEPT ![a] = 0]
                 /\ holder' = a
                 /\ nForm' = nForm + 1
                 /\ lead' = [lead EXCEPT ![a] = nForm + 1]
                 /\ sem' = [sem EXCEPT !["mutex"] = @ - 1,
                                       !["playersWaitTeam"] = @ + GoalieCaptainCalls]
                 /\ relPl' = IF nForm + 1 \in DOMAIN relPl
                             THEN [relPl EXCEPT ![nForm + 1] = @ + GoalieCaptainCalls]
                             ELSE relPl
                 /\ pc' = [pc EXCEPT ![a] = "gcap_down"]
            ELSE \* recruit, 214-215, 224, 240
                 /\ goalieStat' = [goalieStat EXCEPT ![g] = WAITING_TEAM]
                 /\ goaliesFree' = free
                 /\ pc' = [pc EXCEPT ![a] = "rec_down"]
                 /\ UNCHANGED <<sem, i, holder, nForm, lead, relPl>>
       ELSE \* late, 218-221, 224, 257
            /\ goalieStat' = [goalieStat EXCEPT ![g] = LATE]
            /\ goaliesFree' = free - 1
            /\ sem' = [sem EXCEPT !["refereeWaitTeams"] = @ + TeamsReady(LATE)]
            /\ pc' = [pc EXCEPT ![a] = AfterConstitute(0)]
            /\ UNCHANGED <<i, holder, nForm, lead, relPl>>
    /\ UNCHANGED <<playersArrived, playersFree, teamId, playerStat, referee,
                   called, relGl, acksGot, acksSent>>
    /\ saved' = IF holder' = <<GL, g>> THEN saved ELSE saveState(FullState')

\* 201-211, 224-237, 257: the captain waits for one registration; after the
\* last one it decrements the free players, takes the team id, moves teamId to
\* the next team, leaves the critical region, tells the referee that a team is
\* ready and returns
goalieAckPlayer(g) ==
    LET a == <<GL, g>> IN
    /\ pc[a] = "gcap_down"
    /\ semCanDown("playerRegistered")
    /\ acksGot' = bump(acksGot, lead[a])
    /\ IF i[a] + 1 < GoalieCaptainAcks
       THEN /\ i' = [i EXCEPT ![a] = @ + 1]
            /\ sem' = semDown("playerRegistered")
            /\ UNCHANGED <<pc, playersFree, ret, teamId, holder>>
       ELSE /\ i' = [i EXCEPT ![a] = 0]
            /\ playersFree' = playersFree - NUMTEAMPLAYERS
            /\ ret' = [ret EXCEPT ![a] = teamId]
            /\ teamId' = NextTeamId(teamId)
            /\ sem' = [sem EXCEPT !["playerRegistered"] = @ - 1,
                                  !["mutex"] = @ + 1,
                                  !["refereeWaitTeams"] = @ + TeamsReady(Stat(a))]
            /\ holder' = NoOne
            /\ pc' = [pc EXCEPT ![a] = AfterConstitute(teamId)]
    /\ UNCHANGED <<playersArrived, goaliesArrived, goaliesFree, status, referee,
                   nForm, lead, called, relPl, relGl, acksSent>>
    /\ saved' = IF pc'[<<GL, g>>] = pc[<<GL, g>>] THEN saved
                ELSE saveState(FullState')

\* 243: the recruit waits to be called
goalieWaitTeam(g) ==
    LET a == <<GL, g>> IN
    /\ pc[a] = "rec_down"
    /\ semCanDown("goaliesWaitTeam")
    /\ sem' = semDown("goaliesWaitTeam")
    /\ called' = [called EXCEPT ![a] = CurrentFormation]
    /\ pc' = [pc EXCEPT ![a] = "rec_read"]
    /\ UNCHANGED <<counters, status, ret, i, referee,
                   holder, nForm, lead, relPl, relGl, acksGot, acksSent>>
    /\ UNCHANGED saved

\* 248: the recruit reads the shared teamId (outside the critical region)
goalieReadTeam(g) ==
    LET a == <<GL, g>> IN
    /\ pc[a] = "rec_read"
    /\ ret' = [ret EXCEPT ![a] = RecruitTeam(teamId)]
    /\ pc' = [pc EXCEPT ![a] = "rec_up"]
    /\ UNCHANGED <<counters, status, sem, i, referee, history>>
    /\ UNCHANGED saved

\* 251-257: the recruit acknowledges its registration and returns
goalieRegister(g) ==
    LET a == <<GL, g>> IN
    /\ pc[a] = "rec_up"
    /\ sem' = semUp("playerRegistered")
    /\ acksSent' = bump(acksSent, called[a])
    /\ pc' = [pc EXCEPT ![a] = AfterConstitute(ret[a])]
    /\ UNCHANGED <<counters, status, ret, i, referee,
                   holder, nForm, lead, called, relPl, relGl, acksGot>>
    /\ UNCHANGED saved

\* waitReferee, 271-285: critical region with state WAITING_START and saveState
goalieWaitReferee(g) ==
    LET a == <<GL, g>> IN
    /\ pc[a] = "wr"
    /\ semCanDown("mutex")
    /\ goalieStat' = [goalieStat EXCEPT ![g] = WaitingStartStat(ret[a], @)]
    /\ pc' = [pc EXCEPT ![a] = "wr_wait"]
    /\ UNCHANGED <<counters, playerStat, sem, ret, i, referee, history>>
    /\ saved' = saveState(FullState')

\* waitReferee, 291: wait for the referee to start the match
goalieWaitStart(g) ==
    LET a == <<GL, g>> IN
    /\ pc[a] = "wr_wait"
    /\ semCanDown("playersWaitReferee")
    /\ sem' = semDown("playersWaitReferee")
    /\ pc' = [pc EXCEPT ![a] = "pl"]
    /\ UNCHANGED <<counters, status, ret, i, referee, history>>
    /\ UNCHANGED saved

\* playUntilEnd, 308-326: critical region with the signal to the referee, state
\* PLAYING and saveState
goaliePlayUntilEnd(g) ==
    LET a == <<GL, g>> IN
    /\ pc[a] = "pl"
    /\ semCanDown("mutex")
    /\ sem' = semUp("playing")
    /\ goalieStat' = [goalieStat EXCEPT ![g] = PlayingStat(ret[a], @)]
    /\ pc' = [pc EXCEPT ![a] = "pl_end"]
    /\ UNCHANGED <<counters, playerStat, ret, i, referee, history>>
    /\ saved' = saveState(FullState')

\* playUntilEnd, 331: wait for the referee to end the match
goalieWaitEnd(g) ==
    LET a == <<GL, g>> IN
    /\ pc[a] = "pl_end"
    /\ semCanDown("playersWaitEnd")
    /\ sem' = semDown("playersWaitEnd")
    /\ pc' = [pc EXCEPT ![a] = "done"]
    /\ UNCHANGED <<counters, status, ret, i, referee, history>>
    /\ UNCHANGED saved

\* ------------------------------------------------------------------------
\* Failure of a semaphore operation.  semDown / semUp return -1 and the process
\* reports the error and calls exit (EXIT_FAILURE): every operation of both
\* programs is written "if (semX (...) == -1) { perror (...); exit (...); }".
\* The statements before the failing operation have been executed, those after
\* it are not.  The operations that may fail here are those of arrive and of
\* playerConstituteTeam / goalieConstituteTeam; at most MaxFailures of them fail
\* in a run.
MaxFailures == 1

Failed == {a \in Actors : pc[a] = "aborted"}
MayFail == Cardinality(Failed) < MaxFailures

\* variant: the error is reported and the process goes on from where it was
OnFailureGoesOn(pos) == pos

\* exit (EXIT_FAILURE) after perror: the process is gone, whatever its position
OnFailure(pos) == "aborted"

\* variant: the process gives the mutex back when it exits
semAfterExitUndo(s) == [s EXCEPT !["mutex"] = 1]

\* exit leaves the semaphore set as the process left it: neither program
\* releases or restores a semaphore on the error path
semAfterExit(s) == s

\* positions of arrive and constituteTeam whose next statement is a semaphore
\* operation
SemPcs == {"arrive", "ct", "cap_down_pl", "cap_down_gl", "gcap_down", "rec_down",
           "rec_up"}

\* the status slot of process a becomes v
SetStat(a, v) ==
    IF Kind(a) = PL
    THEN playerStat' = [playerStat EXCEPT ![Id(a)] = v] /\ goalieStat' = goalieStat
    ELSE goalieStat' = [goalieStat EXCEPT ![Id(a)] = v] /\ playerStat' = playerStat

\* the arrival of process a is counted; free of its kind becomes f
SetArrived(a, f) ==
    IF Kind(a) = PL
    THEN /\ playersArrived' = playersArrived + 1 /\ playersFree' = f
         /\ UNCHANGED <<goaliesArrived, goaliesFree>>
    ELSE /\ goaliesArrived' = goaliesArrived + 1 /\ goaliesFree' = f
         /\ UNCHANGED <<playersArrived, playersFree>>

\* the first semaphore operation of a step fails (a semDown that returns -1
\* has not decremented the semaphore): nothing but the process changes
semFails(a) ==
    /\ MayFail
    /\ pc[a] \in SemPcs
    /\ pc' = [pc EXCEPT ![a] = OnFailure(@)]
    /\ sem' = semAfterExit(sem)
    /\ UNCHANGED <<counters, status, ret, i, referee, history>>
    /\ UNCHANGED saved

\* arrive: semUp (mutex) fails (part_000:151, Goalie.c:148)
arriveUpFails(a) ==
    /\ MayFail
    /\ pc[a] = "arrive"
    /\ semCanDown("mutex")
    /\ SetStat(a, ARRIVING)
    /\ sem' = semAfterExit(semDown("mutex"))
    /\ holder' = a
    /\ pc' = [pc EXCEPT ![a] = OnFailure(@)]
    /\ UNCHANGED <<counters, ret, i, referee,
                   nForm, lead, called, relPl, relGl, acksGot, acksSent>>
    /\ saved' = saveState(FullState')

\* constituteTeam of a recruit or of a late process: semUp (mutex) fails
\* (part_000:243, Goalie.c:224)
constituteUpFails(a) ==
    LET k == Kind(a)
        arrived == Arrived(k) + 1
        free == Free(k) + 1
        pf == IF k = PL THEN free ELSE playersFree
        gf == IF k = GL THEN free ELSE goaliesFree
    IN
    /\ MayFail
    /\ pc[a] = "ct"
    /\ semCanDown("mutex")
    /\ IsLate(arrived, k) \/ ~CanForm(pf, gf)
    /\ ret' = [ret EXCEPT ![a] = 0]
    /\ IF IsLate(arrived, k)
       THEN SetStat(a, LATE) /\ SetArrived(a, free - 1)
       ELSE SetStat(a, WAITING_TEAM) /\ SetArrived(a, free)
    /\ sem' = semAfterExit(semDown("mutex"))
    /\ holder' = a
    /\ pc' = [pc EXCEPT ![a] = OnFailure(@)]
    /\ UNCHANGED <<teamId, i, referee,
                   nForm, lead, called, relPl, relGl, acksGot, acksSent>>
    /\ saved' = saveState(FullState')

\* constituteTeam of a captain: a call fails, semUp (playersWaitTeam) at
\* part_000:199 (the first call), semUp (goaliesWaitTeam) at part_000:214 if the
\* player captain has no player to call, or the call number n + 1 of the
\* goalie captain at Goalie.c:195
captainCallFails(a) ==
    LET k == Kind(a)
        arrived == Arrived(k) + 1
        free == Free(k) + 1
        pf == IF k = PL THEN free ELSE playersFree
        gf == IF k = GL THEN free ELSE goaliesFree
    IN
    /\ MayFail
    /\ pc[a] = "ct"
    /\ semCanDown("mutex")
    /\ ~IsLate(arrived, k) /\ CanForm(pf, gf)
    /\ ret' = [ret EXCEPT ![a] = 0]
    /\ SetStat(a, FORMING_TEAM)
    /\ holder' = a
    /\ nForm' = nForm + 1
    /\ lead' = [lead EXCEPT ![a] = nForm + 1]
    /\ IF k = PL
       THEN /\ SetArrived(a, IF 0 < PlayerCaptainCalls
                             THEN free ELSE free - NUMTEAMPLAYERS)
            /\ sem' = semAfterExit(semDown("mutex"))
            /\ UNCHANGED relPl
       ELSE \E n \in 0 .. (GoalieCaptainCalls - 1) :
               /\ SetArrived(a, free - NUMTEAMGOALIES)
               /\ sem' = semAfterExit([sem EXCEPT !["mutex"] = @ - 1,
                                                  !["playersWaitTeam"] = @ + n])
               /\ relPl' = IF nForm + 1 \in DOMAIN relPl
                           THEN [relPl EXCEPT ![nForm + 1] = @ + n]
                           ELSE relPl
    /\ pc' = [pc EXCEPT ![a] = OnFailure(@)]
    /\ UNCHANGED <<teamId, i, referee, called, relGl, acksGot, acksSent>>
    /\ UNCHANGED saved

\* the player captain has collected a registration and its next call fails:
\* semUp (playersWaitTeam) at part_000:199 or, after the last player,
\* semUp (goaliesWaitTeam) at part_000:214
playerCallFails(p) ==
    LET a == <<PL, p>> IN
    /\ MayFail
    /\ pc[a] = "cap_down_pl"
    /\ semCanDown("playerRegistered")
    /\ acksGot' = bump(acksGot, lead[a])
    /\ sem' = semAfterExit(semDown("playerRegistered"))
    /\ IF i[a] + 1 < PlayerCaptainCalls
       THEN /\ i' = [i EXCEPT ![a] = @ + 1]
            /\ UNCHANGED playersFree
       ELSE /\ i' = [i EXCEPT ![a] = 0]
            /\ playersFree' = playersFree - NUMTEAMPLAYERS
    /\ pc' = [pc EXCEPT ![a] = OnFailure(@)]
    /\ UNCHANGED <<playersArrived, goaliesArrived, goaliesFree, teamId, status, ret,
                   referee, holder, nForm, lead, called, relPl, relGl, acksSent>>
    /\ UNCHANGED saved

\* the captain has collected its last registration and taken the team id; then
\* semUp (mutex) fails (part_000:243, Goalie.c:224) or, the mutex released,
\* semUp (refereeWaitTeams) fails (part_000:269, Goalie.c:233)
captainEndFails(a) ==
    /\ MayFail
    /\ \/ pc[a] = "cap_down_gl"
       \/ pc[a] = "gcap_down" /\ ~(i[a] + 1 < GoalieCaptainAcks)
    /\ semCanDown("playerRegistered")
    /\ acksGot' = bump(acksGot, lead[a])
    /\ IF Kind(a) = PL
       THEN goaliesFree' = goaliesFree - NUMTEAMGOALIES /\ UNCHANGED playersFree
       ELSE playersFree' = playersFree - NUMTEAMPLAYERS /\ UNCHANGED goaliesFree
    /\ ret' = [ret EXCEPT ![a] = teamId]
    /\ teamId' = NextTeamId(teamId)
    /\ i' = [i EXCEPT ![a] = 0]
    /\ \/ /\ sem' = semAfterExit(semDown("playerRegistered"))
          /\ UNCHANGED holder
       \/ /\ sem' = semAfterExit([sem EXCEPT !["playerRegistered"] = @ - 1,
                                             !["mutex"] = @ + 1])
          /\ holder' = NoOne
    /\ pc' = [pc EXCEPT ![a] = OnFailure(@)]
    /\ UNCHANGED <<playersArrived, goaliesArrived, status, referee,
                   nForm, lead, called, relPl, relGl, acksSent>>
    /\ saved' = saveState(FullState')

\* ------------------------------------------------------------------------
\* Referee: its two rendezvous with the team members.  It waits for two teams
\* and releases every member to start; it waits until every member plays and
\* releases every member at the end.

\* two teams are ready: the match starts, one release per member
refereeStartGame ==
    /\ pcR = "teams"
    /\ sem["refereeWaitTeams"] >= 2
    /\ sem' = [sem EXCEPT !["refereeWaitTeams"] = @ - 2,
                          !["playersWaitReferee"] = @ + NumMembers]
    /\ pcR' = "play"
    /\ UNCHANGED <<counters, status, pc, ret, i, nR, history>>
    /\ UNCHANGED saved

\* every member plays: the match ends, one release per member
refereeEndGame ==
    /\ pcR = "play"
    /\ sem["playing"] >= NumMembers
    /\ sem' = [sem EXCEPT !["playing"] = @ - NumMembers,
                          !["playersWaitEnd"] = @ + NumMembers]
    /\ pcR' = "done"
    /\ UNCHANGED <<counters, status, pc, ret, i, nR, history>>
    /\ UNCHANGED saved

\* ------------------------------------------------------------------------
\* Initial state: shared memory and semaphore set as created for the run

Init ==
    /\ playersArrived = 0
    /\ playersFree = 0
    /\ goaliesArrived = 0
    /\ goaliesFree = 0
    /\ teamId = 1
    /\ playerStat = [p \in Players |-> ARRIVING]
    /\ goalieStat = [g \in Goalies |-> ARRIVING]
    /\ sem = [s \in SemNames |-> IF s = "mutex" THEN 1 ELSE 0]
    /\ pc = [a \in Actors |-> "arrive"]
    /\ ret = [a \in Actors |-> 0]
    /\ i = [a \in Actors |-> 0]
    /\ pcR = "teams"
    /\ nR = 0
    /\ holder = NoOne
    /\ nForm = 0
    /\ lead = [a \in Actors |-> 0]
    /\ called = [a \in Actors |-> 0]
    /\ relPl = [n \in Formations |-> 0]
    /\ relGl = [n \in Formations |-> 0]
    /\ acksGot = [n \in Formations |-> 0]
    /\ acksSent = [n \in Formations |-> 0]
    /\ saved = <<<<0, 0, 0, 0, 1>>,
                 <<[p \in Players |-> ARRIVING], [g \in Goalies |-> ARRIVING]>>>>

\* Symmetry reduction.  The processes of one kind run the same code and are told
\* apart only by the slot of the status array they write, so two of them in the
\* same local state are interchangeable: exchanging their ids maps the state to
\* itself.  Of such processes only the one with the lowest id is scheduled; every
\* run of the program is a run of this model up to a renaming of the ids.
SavedStat(a) == IF Kind(a) = PL THEN saved[2][1][Id(a)] ELSE saved[2][2][Id(a)]
Local(a) ==
    <<pc[a], Stat(a), ret[a], i[a], lead[a], called[a], holder = a, SavedStat(a)>>
Turn(a) ==
    \A b \in Actors : (Kind(b) = Kind(a) /\ Id(b) < Id(a)) => Local(b) # Local(a)

Next ==
    \/ \E p \in Players : playerArrive(p) /\ Turn(<<PL, p>>)
    \/ \E p \in Players : playerConstituteTeam(p) /\ Turn(<<PL, p>>)
    \/ \E p \in Players : playerAckPlayer(p) /\ Turn(<<PL, p>>)
    \/ \E p \in Players : playerAckGoalie(p) /\ Turn(<<PL, p>>)
    \/ \E p \in Players : playerWaitTeam(p) /\ Turn(<<PL, p>>)
    \/ \E p \in Players : playerReadTeam(p) /\ Turn(<<PL, p>>)
    \/ \E p \in Players : playerRegister(p) /\ Turn(<<PL, p>>)
    \/ \E p \in Players : playerWaitReferee(p) /\ Turn(<<PL, p>>)
    \/ \E p \in Players : playerWaitStart(p) /\ Turn(<<PL, p>>)
    \/ \E p \in Players : playerPlayUntilEnd(p) /\ Turn(<<PL, p>>)
    \/ \E p \in Players : playerWaitEnd(p) /\ Turn(<<PL, p>>)
    \/ \E g \in Goalies : goalieArrive(g) /\ Turn(<<GL, g>>)
    \/ \E g \in Goalies : goalieConstituteTeam(g) /\ Turn(<<GL, g>>)
    \/ \E g \in Goalies : goalieAckPlayer(g) /\ Turn(<<GL, g>>)
    \/ \E g \in Goalies : goalieWaitTeam(g) /\ Turn(<<GL, g>>)
    \/ \E g \in Goalies : goalieReadTeam(g) /\ Turn(<<GL, g>>)
    \/ \E g \in Goalies : goalieRegister(g) /\ Turn(<<GL, g>>)
    \/ \E g \in Goalies : goalieWaitReferee(g) /\ Turn(<<GL, g>>)
    \/ \E g \in Goalies : goalieWaitStart(g) /\ Turn(<<GL, g>>)
    \/ \E g \in Goalies : goaliePlayUntilEnd(g) /\ Turn(<<GL, g>>)
    \/ \E g \in Goalies : goalieWaitEnd(g) /\ Turn(<<GL, g>>)
    \/ refereeStartGame
    \/ refereeEndGame

Spec == Init /\ [][Next]_vars

\* Fair scheduling: the operating system runs every process that can take a
\* step, and a semaphore that is up wakes a process blocked on it.  Every
\* process has finitely many steps, so it suffices that the system does not
\* stop while some step is possible.
FairSpec == Spec /\ WF_vars(Next)

\* The run in which semaphore operations of arrive and constituteTeam may fail
NextF ==
    \/ Next
    \/ \E a \in Actors : semFails(a) /\ Turn(a)
    \/ \E a \in Actors : arriveUpFails(a) /\ Turn(a)
    \/ \E a \in Actors : constituteUpFails(a) /\ Turn(a)
    \/ \E a \in Actors : captainCallFails(a) /\ Turn(a)
    \/ \E p \in Players : playerCallFails(p) /\ Turn(<<PL, p>>)
    \/ \E a \in Actors : captainEndFails(a) /\ Turn(a)

SpecF == Init /\ [][NextF]_vars

\* ------------------------------------------------------------------------
\* Vocabulary of the properties

ActorsOf(kind) == {a \in Actors : Kind(a) = kind}

\* the process has returned from playerConstituteTeam / goalieConstituteTeam
Returned(a) == pc[a] \in {"wr", "wr_wait", "pl", "pl_end", "done"}
AllReturned == \A a \in Actors : Returned(a)

\* the process has been called as a recruit and has read the team id
HasRead(a) == called[a] # 0 /\ pc[a] # "rec_read"

Holding(kind, t) == Cardinality({a \in ActorsOf(kind) : ret[a] = t})
ReturnedWith(kind, t) ==
    Cardinality({a \in ActorsOf(kind) : Returned(a) /\ ret[a] = t})
LateOf(kind) == {a \in ActorsOf(kind) : Stat(a) = LATE}
Max(x, y) == IF x >= y THEN x ELSE y

\* ------------------------------------------------------------------------
\* C1: every issued team id t (t < teamId) has been returned to exactly
\* NUMTEAMPLAYERS players and NUMTEAMGOALIES goalies, captain included, and in no
\* state do more players or goalies hold team id t than a team has.
C1_TeamSizes ==
    /\ \A t \in 1 .. 3 :
          /\ Holding(PL, t) <= NUMTEAMPLAYERS
          /\ Holding(GL, t) <= NUMTEAMGOALIES
    /\ \A t \in 1 .. 3 :
          t < teamId =>
             /\ ReturnedWith(PL, t) = NUMTEAMPLAYERS
             /\ ReturnedWith(GL, t) = NUMTEAMGOALIES

\* both teams formed and every process back from constituteTeam
C1_Witness ==
    /\ AllReturned
    /\ teamId = 3
    /\ ReturnedWith(PL, 1) = NUMTEAMPLAYERS /\ ReturnedWith(GL, 2) = NUMTEAMGOALIES

\* C2: only the team ids 1 and 2 are given out (0: no team); the processes
\* marked LATE are exactly the arrivals beyond 2 * perTeam of their kind, and
\* a LATE process has team id 0 and has returned.
C2_TwoTeamsRestLate ==
    /\ \A a \in Actors : ret[a] \in {0, 1, 2}
    /\ \A kind \in {PL, GL} :
          Cardinality(LateOf(kind)) = Max(0, Arrived(kind) - 2 * perTeam(kind))
    /\ \A a \in Actors : Stat(a) = LATE => ret[a] = 0 /\ pc[a] = "done"

\* a late player and a late goalie, and the others in teams 1 and 2
C2_Witness ==
    /\ LateOf(PL) # {} /\ LateOf(GL) # {}
    /\ \A a \in Actors : Stat(a) # LATE => Returned(a) /\ ret[a] \in {1, 2}

\* C3: a recruit that has been called wakes while a captain is forming; the
\* team id it reads is the one its captain takes when the formation ends, and
\* the captain is still forming (teamId not advanced) until the recruit has
\* read and acknowledged.
C3_RecruitGetsCaptainTeam ==
    \A r \in Actors :
       /\ pc[r] \in {"rec_read", "rec_up"} =>
             /\ called[r] # 0
             /\ \E c \in Forming : lead[c] = called[r]
       /\ pc[r] \notin {"arrive", "ct", "rec_down"} /\ lead[r] = 0 /\ Stat(r) # LATE
             => called[r] # 0
       /\ HasRead(r) =>
             /\ ret[r] \in {1, 2}
             /\ \A c \in Actors :
                   lead[c] = called[r] =>
                      IF c \in Forming THEN ret[r] = teamId ELSE ret[r] = ret[c]

\* a recruit of the second team and its captain, both returned with team 2
C3_Witness ==
    \E r, c \in Actors :
       /\ called[r] = 2 /\ lead[c] = 2
       /\ Returned(r) /\ Returned(c)
       /\ ret[r] = 2 /\ ret[c] = 2

\* ------------------------------------------------------------------------
\* C4: with enough players and goalies for two teams and fair scheduling, every
\* process eventually returns from constituteTeam, LATE with team id 0 or with
\* team id 1 or 2.
ReturnedWithResult(a) ==
    /\ Returned(a)
    /\ IF Stat(a) = LATE THEN ret[a] = 0 ELSE ret[a] \in {1, 2}

C4_EveryoneReturns ==
    (NUMPLAYERS >= 2 * NUMTEAMPLAYERS /\ NUMGOALIES >= 2 * NUMTEAMGOALIES)
       => <>(\A a \in Actors : ReturnedWithResult(a))

\* everyone has returned: the late ones out, the others past the formation
C4_Witness ==
    /\ \A a \in Actors : ReturnedWithResult(a)
    /\ \E a \in Actors : Stat(a) = LATE
    /\ \E a \in Actors : called[a] # 0 /\ ret[a] = 1

\* ------------------------------------------------------------------------
\* C5 as stated: no process is at a blocking wait (for a call, a registration,
\* the start or the end of the match) inside a critical region.
BlockingWaits == {"rec_down", "cap_down_pl", "cap_down_gl", "gcap_down",
                  "wr_wait", "pl_end"}

Outstanding(n) == relPl[n] + relGl[n] - acksGot[n]

WantPl(c) == NUMTEAMPLAYERS - (IF Kind(c) = PL THEN 1 ELSE 0)
WantGl(c) == NUMTEAMGOALIES - (IF Kind(c) = GL THEN 1 ELSE 0)
RegisteredIn(n) == {r \in Actors : called[r] = n /\ Returned(r)}

C7_CallsMatchRegistrations ==
    \A c \in Actors :
       lead[c] \in Formations =>
          LET n == lead[c] IN
          /\ relPl[n] <= WantPl(c)
          /\ relGl[n] <= WantGl(c)
          /\ acksGot[n] <= acksSent[n]
          /\ acksSent[n] <= relPl[n] + relGl[n]
          /\ acksSent[n] = Cardinality(RegisteredIn(n))
          /\ Returned(c) =>
                /\ relPl[n] = WantPl(c)
                /\ relGl[n] = WantGl(c)
                /\ acksGot[n] = WantPl(c) + WantGl(c)
                /\ acksSent[n] = acksGot[n]
                /\ Cardinality({r \in RegisteredIn(n) : Kind(r) = PL}) = WantPl(c)
                /\ Cardinality({r \in RegisteredIn(n) : Kind(r) = GL}) = WantGl(c)

\* a team completed by a player captain and a team completed by a goalie captain
C7_Witness ==
    \E c, d \in Actors :
       /\ Kind(c) = PL /\ Kind(d) = GL
       /\ lead[c] \in Formations /\ lead[d] \in Formations
       /\ Returned(c) /\ Returned(d)
       /\ acksGot[lead[c]] = NUMTEAMPLAYERS /\ acksGot[lead[d]] = NUMTEAMPLAYERS

\* ------------------------------------------------------------------------
\* C8: the state of a process only moves forward, ARRIVING, then one of
\* FORMING_TEAM / WAITING_TEAM / LATE, then WAITING_START, then PLAYING; LATE is
\* final, WAITING_TEAM never becomes FORMING_TEAM, and the team of
\* WAITING_START and PLAYING is the team constituteTeam returned.
ForwardStep(a) ==
    \/ Stat(a)' = Stat(a)
    \/ Stat(a) = ARRIVING /\ Stat(a)' \in {FORMING_TEAM, WAITING_TEAM, LATE}
    \/ /\ Stat(a) \in {FORMING_TEAM, WAITING_TEAM}
       /\ Stat(a)' \in {WAITING_START_1, WAITING_START_2}
    \/ Stat(a) = WAITING_START_1 /\ Stat(a)' = PLAYING_1
    \/ Stat(a) = WAITING_START_2 /\ Stat(a)' = PLAYING_2

TeamOfStatus ==
    \A a \in Actors :
       /\ Stat(a) \in {WAITING_START_1, PLAYING_1} => Returned(a) /\ ret[a] = 1
       /\ Stat(a) \in {WAITING_START_2, PLAYING_2} => Returned(a) /\ ret[a] = 2
       /\ Stat(a) \in {ARRIVING, FORMING_TEAM, WAITING_TEAM, LATE}
             => pc[a] \notin {"wr_wait", "pl", "pl_end"}

C8_StatusForward ==
    /\ []TeamOfStatus
    /\ [][\A a \in Actors : ForwardStep(a)]_vars

\* a recruit of team 2 playing, a captain playing, and a late process
C8_Witness ==
    \E r, c, l \in Actors :
       /\ Stat(r) = PLAYING_2 /\ called[r] # 0
       /\ Stat(c) \in {PLAYING_1, PLAYING_2} /\ lead[c] # 0
       /\ Stat(l) = LATE

\* ------------------------------------------------------------------------
\* C9: the role is taken in the arrival critical section from the counters as
\* they are after the arrival is counted: LATE iff arrived > 2 * perTeam of the
\* kind; else captain iff playersFree >= NUMTEAMPLAYERS and goaliesFree >=
\* NUMTEAMGOALIES; else recruit.  It is taken once and never changed.
RoleStep(a) ==
    (pc[a] = "ct" /\ pc'[a] # "ct") =>
       LET k == Kind(a)
           arr == Arrived(k) + 1
           pf == playersFree + (IF k = PL THEN 1 ELSE 0)
           gf == goaliesFree + (IF k = GL THEN 1 ELSE 0)
           late == arr > 2 * perTeam(k)
           enough == pf >= NUMTEAMPLAYERS /\ gf >= NUMTEAMGOALIES
       IN
       /\ Arrived(k)' = arr
       /\ Stat(a)' = LATE <=> late
       /\ Stat(a)' = FORMING_TEAM <=> (~late /\ enough)
       /\ Stat(a)' = WAITING_TEAM <=> (~late /\ ~enough)
       /\ lead'[a] # 0 <=> (~late /\ enough)

RoleKept(a) ==
    pc[a] \notin {"arrive", "ct"} =>
       /\ lead'[a] = lead[a]
       /\ Stat(a) = WAITING_TEAM => Stat(a)' # FORMING_TEAM
       /\ Stat(a)' \in {FORMING_TEAM, WAITING_TEAM, LATE} => Stat(a)' = Stat(a)
       /\ pc'[a] \notin {"arrive", "ct"}

C9_RoleDecidedOnce ==
    [][\A a \in Actors : RoleStep(a) /\ RoleKept(a)]_vars

\* a recruit still waiting for a call although a team has been formed since:
\* it saw too few free processes and stays a recruit
C9_Witness ==
    \E r, c, l \in Actors :
       /\ Stat(r) = WAITING_TEAM /\ pc[r] = "rec_down" /\ Kind(r) = PL
       /\ lead[c] = 1 /\ Returned(c)
       /\ Stat(l) = LATE

\* ------------------------------------------------------------------------
\* C10: the arrival of a LATE process changes arrived of its kind and its own
\* state only: free of its kind, the counters of the other kind, teamId and
\* every semaphore are as before; it returns 0 and takes no further step, so
\* it enters neither waitReferee nor playUntilEnd.
LateStep(a) ==
    (Stat(a) # LATE /\ Stat(a)' = LATE) =>
       LET k == Kind(a)
           o == IF k = PL THEN GL ELSE PL
       IN
       /\ pc[a] = "ct"
       /\ Arrived(k)' = Arrived(k) + 1
       /\ Free(k)' = Free(k)
       /\ Arrived(o)' = Arrived(o)
       /\ Free(o)' = Free(o)
       /\ teamId' = teamId
       /\ sem' = sem
       /\ ret'[a] = 0
       /\ pc'[a] = "done"
       /\ \A b \in Actors \ {a} : Stat(b)' = Stat(b) /\ pc'[b] = pc[b]
       /\ UNCHANGED <<referee, history>>

LateStays(a) ==
    Stat(a) = LATE =>
       /\ pc[a] = "done"
       /\ pc'[a] = "done"
       /\ Stat(a)' = LATE
       /\ ret'[a] = 0

C10_LateLeavesNoTrace ==
    [][\A a \in Actors : LateStep(a) /\ LateStays(a)]_vars

\* a late player is out while the others wait for a call or form a team
C10_Witness ==
    \E l \in Actors :
       /\ Kind(l) = PL /\ Stat(l) = LATE /\ pc[l] = "done" /\ ret[l] = 0
       /\ playersArrived = 2 * NUMTEAMPLAYERS + 1
       /\ playersFree = 2 * NUMTEAMPLAYERS
       /\ teamId = 1

\* ------------------------------------------------------------------------
\* the process that takes the step (every step moves one process's position,
\* except a captain's wait for a registration that is not its last)
Acts(a) == pc'[a] # pc[a] \/ i'[a] # i[a]

WriteStep(a) ==
    (Acts(a) /\ (counters' # counters \/ status' # status)) =>
       /\ \/ holder = NoOne /\ sem["mutex"] = 1
          \/ holder = a /\ sem["mutex"] = 0
       /\ \A b \in Actors \ {a} : Stat(b)' = Stat(b)

ReadOutside ==
    \A r \in Actors :
       pc[r] \in {"rec_read", "rec_up"} =>
          /\ holder \in Forming
          /\ holder # r
          /\ lead[holder] = called[r]
          /\ sem["mutex"] = 0
          /\ teamId = lead[holder]

Gone(a) == pc[a] = "aborted"

KeepsMutex ==
    /\ (holder = NoOne) <=> (sem["mutex"] = 1)
    /\ \A a \in Actors : holder = a => (pc[a] \in FormingPcs \/ Gone(a))

GoneStep(a) ==
    Gone(a) =>
       /\ Gone(a)'
       /\ Stat(a)' = Stat(a) /\ ret'[a] = ret[a] /\ i'[a] = i[a]
       /\ lead'[a] = lead[a] /\ called'[a] = called[a]
       /\ holder = a =>
             /\ holder' = a /\ sem'["mutex"] = 0
             /\ UNCHANGED <<counters, status>>
             /\ UNCHANGED <<nForm, relPl, relGl, acksGot>>

\* the step in which an operation fails is the step of the failing process only
FailingStep(a) ==
    (~Gone(a) /\ Gone(a)') =>
       /\ \A b \in Actors \ {a} :
             /\ pc'[b] = pc[b] /\ Stat(b)' = Stat(b) /\ ret'[b] = ret[b]
       /\ UNCHANGED referee
       /\ sem'["refereeWaitTeams"] = sem["refereeWaitTeams"]
       /\ pc[a] \notin FormingPcs => teamId' = teamId

C12_FailureAborts ==
    /\ []KeepsMutex
    /\ [][\A a \in Actors : GoneStep(a) /\ FailingStep(a)]_vars

\* a recruit is gone with the mutex held (its release of the mutex failed) after
\* a first team was formed; a process that arrived since is blocked on the mutex
C12_Witness ==
    \E a, b \in Actors :
       /\ Gone(a) /\ holder = a /\ Stat(a) = WAITING_TEAM /\ sem["mutex"] = 0
       /\ teamId = 2
       /\ pc[b] = "ct"

\* ------------------------------------------------------------------------
\* C13: also when a captain is gone in the middle of its calls, a process
\* returns a team id other than 0 only if it completed a formation as captain
\* or consumed a call of a captain, and the id is that of that captain's team:
\* the id the captain took, or the one it was about to take (teamId, which
\* nobody can change while the mutex stays with the captain).
Completed(c) ==
    /\ lead[c] \in Formations
    /\ acksGot[lead[c]] = WantPl(c) + WantGl(c)
    /\ ret[c] \in {1, 2}

ConsumedCall(r) ==
    /\ called[r] \in Formations
    /\ \E c \in Actors :
          /\ lead[c] = called[r]
          /\ IF Kind(r) = PL THEN relPl[lead[c]] >= 1 ELSE relGl[lead[c]] >= 1
          /\ IF Completed(c) THEN ret[r] = ret[c]
             ELSE holder = c /\ ret[r] = teamId

C13_OnlyGrantedTeamIds ==
    /\ \A a \in Actors :
          (Returned(a) /\ ret[a] # 0) =>
             IF lead[a] # 0 THEN Completed(a) ELSE ConsumedCall(a)
    /\ \A n \in Formations :
          /\ Cardinality({r \in ActorsOf(PL) : called[r] = n}) <= relPl[n]
          /\ Cardinality({r \in ActorsOf(GL) : called[r] = n}) <= relGl[n]

\* a captain is gone before it collected all its registrations, and a recruit
\* it had called has returned with the id of the team that was being formed
C13_Witness ==
    \E c, r \in Actors :
       /\ Gone(c) /\ lead[c] \in Formations /\ holder = c
       /\ acksGot[lead[c]] < WantPl(c) + WantGl(c)
       /\ called[r] = lead[c] /\ Returned(r) /\ ret[r] = teamId

\* ------------------------------------------------------------------------
\* C14: refereeWaitTeams is signalled once per completed team, by the captain
\* of the team in the step in which it has collected its last registration and
\* taken the team id; no recruit and no late process signals it.  The signals
\* are never more than 2 and as many as the captains that have returned.
TeamsReadySignals == sem["refereeWaitTeams"] + (IF pcR = "teams" THEN 0 ELSE 2)
ReturnedCaptains == {c \in Actors : lead[c] # 0 /\ Returned(c)}

SignalStep ==
    sem'["refereeWaitTeams"] > sem["refereeWaitTeams"] =>
       /\ sem'["refereeWaitTeams"] = sem["refereeWaitTeams"] + 1
       /\ \E c \in Actors :
             /\ pc[c] \in FormingPcs /\ Returned(c)'
             /\ Stat(c) = FORMING_TEAM /\ lead[c] \in Formations
             /\ acksGot'[lead[c]] = WantPl(c) + WantGl(c)
             /\ ret'[c] = teamId /\ teamId' = teamId + 1
             /\ \A b \in Actors \ {c} : pc'[b] = pc[b]

C14_OneSignalPerTeam ==
    /\ [](/\ TeamsReadySignals <= 2
          /\ TeamsReadySignals = Cardinality(ReturnedCaptains)
          /\ TeamsReadySignals = teamId - 1)
    /\ [][SignalStep]_vars

\* both teams are ready and the referee has not yet started the match; late
\* processes and recruits have returned
C14_Witness ==
    /\ sem["refereeWaitTeams"] = 2 /\ pcR = "teams"
    /\ Cardinality(ReturnedCaptains) = 2
    /\ \E l, r \in Actors :
          /\ Stat(l) = LATE /\ pc[l] = "done"
          /\ called[r] # 0 /\ Returned(r)

\* ------------------------------------------------------------------------
\* C15: teamId is 1 at the start, grows by exactly one in the step in which a
\* captain completes its formation and changes in no other step, and is never
\* more than 3, with more players and goalies than two teams need.
CompletesFormation(c) == pc[c] \in FormingPcs /\ Returned(c)'

TeamIdStep ==
    /\ teamId' # teamId => \E c \in Actors : CompletesFormation(c)
    /\ (\E c \in Actors : CompletesFormation(c)) => teamId' = teamId + 1

C15_TeamIdCountsTeams ==
    /\ teamId = 1
    /\ [](teamId \in 1 .. 3 /\ teamId = 1 + Cardinality(ReturnedCaptains))
    /\ [][TeamIdStep]_vars

\* two teams formed, teamId at 3, and late arrivals of both kinds still to come
C15_Witness ==
    /\ teamId = 3
    /\ \E p, g \in Actors :
          /\ Kind(p) = PL /\ Kind(g) = GL
          /\ pc[p] \in {"arrive", "ct"} /\ pc[g] \in {"arrive", "ct"}
    /\ playersArrived = 2 * NUMTEAMPLAYERS /\ goaliesArrived = 2 * NUMTEAMGOALIES

\* ------------------------------------------------------------------------
\* C16: at most one formation is in progress.  From the step in which a process
\* marks itself FORMING_TEAM to the step in which it takes the team id, it
\* holds the mutex: no other process counts its arrival, reads the free
\* counters or marks itself FORMING_TEAM, and the counters change in the
\* captain's steps only.  Between formations the free counters are exactly the
\* recruits that wait for a call, so no free process is counted for two teams.
WaitingForCall(kind) ==
    {r \in ActorsOf(kind) : pc[r] = "rec_down" /\ Stat(r) = WAITING_TEAM}

OneFormation ==
    /\ Cardinality(Forming) <= 1
    /\ \A c \in Forming :
          /\ holder = c /\ sem["mutex"] = 0
          /\ Stat(c) = FORMING_TEAM /\ lead[c] = nForm
    /\ \A r \in Actors : pc[r] \in {"rec_read", "rec_up"} => called[r] = nForm
    /\ Forming = {} =>
          /\ playersFree = Cardinality(WaitingForCall(PL))
          /\ goaliesFree = Cardinality(WaitingForCall(GL))
          /\ sem["playersWaitTeam"] = 0 /\ sem["goaliesWaitTeam"] = 0
          /\ sem["playerRegistered"] = 0

DuringFormation ==
    Forming # {} =>
       /\ \A b \in Actors \ Forming :
             /\ pc[b] = "ct" => pc'[b] = "ct"
             /\ Stat(b)' = FORMING_TEAM => Stat(b) = FORMING_TEAM
             /\ lead'[b] = lead[b]
       /\ <<playersArrived, goaliesArrived>>' = <<playersArrived, goaliesArrived>>
       /\ counters' # counters => \E c \in Forming : Acts(c)
       /\ nForm' = nForm

C16_OneFormationAtATime ==
    /\ []OneFormation
    /\ [][DuringFormation]_vars

\* the second formation is in progress, led by a player that waits for the
\* goalie it called, while a goalie that would find the counters changed waits
\* at the entry of its arrival critical region
C16_Witness ==
    \E c, b \in Actors :
       /\ pc[c] = "cap_down_gl" /\ lead[c] = 2 /\ holder = c
       /\ Kind(b) = GL /\ pc[b] = "ct"
       /\ goaliesFree >= NUMTEAMGOALIES

\* ------------------------------------------------------------------------
\* C17: a process with a team writes WAITING_START of its team inside a
\* critical region, leaves the region, and only then waits on
\* playersWaitReferee; it leaves waitReferee by taking one release of the
\* referee.  So the processes past the start gate and the releases not yet
\* taken add up to the releases the referee has issued, and a process in state
\* PLAYING is past the gate.
PastStart == {a \in Actors : pc[a] \in {"pl", "pl_end"} \/ (pc[a] = "done" /\ ret[a] # 0)}
StartReleases == IF pcR = "teams" THEN 0 ELSE NumMembers

StartGate ==
    /\ Cardinality(PastStart) + sem["playersWaitReferee"] = StartReleases
    /\ Cardinality(PastStart) <= StartReleases
    /\ \A a \in Actors :
          /\ pc[a] = "wr_wait" =>
                /\ Stat(a) = (IF ret[a] = 1 THEN WAITING_START_1 ELSE WAITING_START_2)
                /\ holder # a
          /\ pc[a] = "wr" => ret[a] \in {1, 2} /\ a \notin PastStart
          /\ Stat(a) \in {PLAYING_1, PLAYING_2} => a \in PastStart
          /\ (Returned(a) /\ ret[a] # 0) => pc[a] \in {"wr", "wr_wait"} \/ a \in PastStart

StartGateStep(a) ==
    /\ (pc[a] = "wr" /\ pc'[a] # "wr") =>
          /\ pc'[a] = "wr_wait"
          /\ holder = NoOne /\ sem["mutex"] = 1 /\ sem' = sem
    /\ (pc[a] = "wr_wait" /\ pc'[a] # "wr_wait") =>
          /\ pc'[a] = "pl"
          /\ sem'["playersWaitReferee"] = sem["playersWaitReferee"] - 1
    /\ (a \notin PastStart /\ (a \in PastStart)') => pc[a] = "wr_wait"

C17_StartGate ==
    /\ []StartGate
    /\ [][\A a \in Actors : StartGateStep(a)]_vars

\* the match has started: one member is past the gate, one waits at it with a
\* release left, one has not yet entered waitReferee
C17_Witness ==
    \E a, b, c \in Actors :
       /\ pc[a] = "pl" /\ pc[b] = "wr_wait" /\ pc[c] = "wr"
       /\ pcR = "play" /\ sem["playersWaitReferee"] = NumMembers - 1

\* ------------------------------------------------------------------------
\* C18: past the start gate a member writes PLAYING of its team and signals
\* playing once, inside one critical region, then waits once on playersWaitEnd.
\* The signals on playing are as many as the members that have entered play,
\* never more than the members of two teams, and a member ends its life cycle
\* only by taking one release of playersWaitEnd.
InPlay == {a \in Actors : pc[a] = "pl_end" \/ (pc[a] = "done" /\ ret[a] # 0)}
Ended == {a \in Actors : pc[a] = "done" /\ ret[a] # 0}
PlayingSignals == sem["playing"] + (IF pcR = "done" THEN NumMembers ELSE 0)
EndReleases == IF pcR = "done" THEN NumMembers ELSE 0

EndGate ==
    /\ PlayingSignals = Cardinality(InPlay)
    /\ PlayingSignals <= NumMembers
    /\ InPlay \subseteq PastStart
    /\ Cardinality(Ended) + sem["playersWaitEnd"] = EndReleases
    /\ \A a \in InPlay : Stat(a) = (IF ret[a] = 1 THEN PLAYING_1 ELSE PLAYING_2) /\ ret[a] \in {1, 2}

EndGateStep(a) ==
    /\ (pc[a] = "pl" /\ pc'[a] # "pl") =>
          /\ pc'[a] = "pl_end"
          /\ holder = NoOne /\ sem["mutex"] = 1
          /\ sem' = [sem EXCEPT !["playing"] = @ + 1]
          /\ Stat(a)' = (IF ret[a] = 1 THEN PLAYING_1 ELSE PLAYING_2)
    /\ (pc[a] = "pl_end" /\ pc'[a] # "pl_end") =>
          /\ pc'[a] = "done"
          /\ sem' = [sem EXCEPT !["playersWaitEnd"] = @ - 1]
    /\ (a \notin Ended /\ (a \in Ended)') => pc[a] = "pl_end"

C18_EndGate ==
    /\ []EndGate
    /\ [][\A a \in Actors : EndGateStep(a)]_vars

\* the match is over: every member has signalled playing, one member has ended
\* and another still waits with releases left
C18_Witness ==
    \E a, b \in Actors :
       /\ pc[a] = "done" /\ ret[a] = 1 /\ pc[b] = "pl_end" /\ ret[b] = 2
       /\ pcR = "done" /\ sem["playersWaitEnd"] = NumMembers - 1
       /\ Cardinality(InPlay) = NumMembers

\* ------------------------------------------------------------------------
\* C19: saveState is called by a process that holds the mutex, and every
\* critical region that writes a state or a counter calls it after its last
\* write and before it releases the mutex.  So the log is written with no
\* other process inside a critical region, and whenever the mutex is free the
\* state last written to the log is the current one.
LogCurrent == holder = NoOne => saved = FullState

SaveStep ==
    saved' # saved =>
       /\ saved' = FullState'
       /\ \E a \in Actors :
             /\ Acts(a)
             /\ \/ holder = NoOne /\ sem["mutex"] = 1
                \/ holder = a /\ sem["mutex"] = 0
             /\ Forming \subseteq {a}

WriteIsSaved ==
    (FullState' # FullState /\ holder' = NoOne) => saved' = FullState'

C19_SaveStateInsideRegion ==
    /\ []LogCurrent
    /\ [][SaveStep /\ WriteIsSaved]_vars

\* the captain of the second team is in its critical region and has not yet
\* called saveState: the log still shows it as it arrived
C19_Witness ==
    \E c \in Forming :
       /\ lead[c] = 2 /\ holder = c
       /\ saved # FullState
       /\ SavedStat(c) = ARRIVING /\ Stat(c) = FORMING_TEAM
       /\ saved[1][5] = 2

\* ------------------------------------------------------------------------
\* C20: whenever the mutex is free, the free players and the free goalies are
\* not both enough for a team: a team that can be formed is formed by the
\* arrival that makes it possible.  So once 2 * NUMTEAMPLAYERS players and
\* 2 * NUMTEAMGOALIES goalies have arrived, two teams have been formed.
EnoughFree == playersFree >= NUMTEAMPLAYERS /\ goaliesFree >= NUMTEAMGOALIES

C20_NoFormableTeamLeft ==
    (holder = NoOne /\ sem["mutex"] = 1) =>
       /\ ~EnoughFree
       /\ playersFree >= 0 /\ goaliesFree >= 0
       /\ (playersArrived >= 2 * NUMTEAMPLAYERS /\ goaliesArrived >= 2 * NUMTEAMGOALIES)
             => teamId = 3 /\ playersFree = 0 /\ goaliesFree = 0

\* the mutex is free after the first team: enough free players for the second
\* team wait for a call, and no goalie is free
C20_Witness ==
    /\ holder = NoOne /\ sem["mutex"] = 1
    /\ teamId = 2
    /\ playersFree = NUMTEAMPLAYERS /\ goaliesFree = 0
    /\ goaliesArrived = NUMTEAMGOALIES
    /\ \E l \in Actors : Kind(l) = PL /\ Stat(l) = LATE

\* ------------------------------------------------------------------------
\* C21: the free counters are never negative, and whenever the mutex is free
\* playersFree = min (playersArrived, 2 * NUMTEAMPLAYERS)
\*               - NUMTEAMPLAYERS * (teamId - 1)
\* and goaliesFree = min (goaliesArrived, 2 * NUMTEAMGOALIES)
\*                   - NUMTEAMGOALIES * (teamId - 1):
\* the arrivals within the pool that are not yet in a completed team.
Min(x, y) == IF x <= y THEN x ELSE y

FreeOf(kind) == Min(Arrived(kind), 2 * perTeam(kind)) - perTeam(kind) * (teamId - 1)

C21_FreeCounters ==
    /\ playersFree >= 0 /\ goaliesFree >= 0
    /\ sem["mutex"] = 1 =>
          /\ playersFree = FreeOf(PL)
          /\ goaliesFree = FreeOf(GL)

\* the mutex is free after both teams, with a late player and a late goalie
\* counted as arrived: the arrivals beyond the pool are not free
C21_Witness ==
    /\ sem["mutex"] = 1 /\ teamId = 3
    /\ playersArrived > 2 * NUMTEAMPLAYERS /\ goaliesArrived > 2 * NUMTEAMGOALIES
    /\ playersFree = 0 /\ goaliesFree = 0
    /\ \E c \in Actors : Kind(c) = GL /\ lead[c] = 1 /\ Returned(c)

\* ------------------------------------------------------------------------
\* C22: a captain never issues a call that no recruit can take: the value of
\* playersWaitTeam (goaliesWaitTeam) is at most the number of players (goalies)
\* in state WAITING_TEAM that have not yet taken a call.  A called recruit
\* reads the team id and registers without entering a critical region, so a
\* captain that waits for a registration with the mutex held is never stuck:
\* every call it still waits for is a call a recruit can take, a recruit on
\* its way to register, or a registration already sent.
WaitTeamSem(kind) == IF kind = PL THEN "playersWaitTeam" ELSE "goaliesWaitTeam"

Waking == {r \in Actors : pc[r] \in {"rec_read", "rec_up"}}

CallsHaveTakers ==
    \A kind \in {PL, GL} :
       sem[WaitTeamSem(kind)] <= Cardinality(WaitingForCall(kind))

CaptainNotStuck ==
    \A c \in Forming :
       /\ holder = c /\ sem["mutex"] = 0
       /\ Outstanding(lead[c]) =
             sem["playersWaitTeam"] + sem["goaliesWaitTeam"]
             + Cardinality(Waking) + sem["playerRegistered"]
       /\ sem["playerRegistered"] = 0 =>
             \/ Waking # {}
             \/ \E r \in Actors : pc[r] = "rec_down" /\ sem[WaitTeamSem(Kind(r))] > 0

RecruitNeedsNoMutex ==
    \A r \in Actors :
       (pc[r] \in {"rec_down", "rec_read", "rec_up"} /\ pc'[r] # pc[r]) =>
          /\ sem'["mutex"] = sem["mutex"]
          /\ holder' = holder /\ holder # r

C22_CallsHaveTakers ==
    /\ [](CallsHaveTakers /\ CaptainNotStuck)
    /\ [][RecruitNeedsNoMutex]_vars

\* a goalie captain holds the mutex with all its calls issued, as many as
\* there are players waiting, one of them already taken by a player that has
\* not yet registered
C22_Witness ==
    \E c \in Forming, r \in Actors :
       /\ Kind(c) = GL /\ holder = c /\ sem["mutex"] = 0
       /\ sem["playerRegistered"] = 0
       /\ pc[r] = "rec_read" /\ Kind(r) = PL
       /\ sem["playersWaitTeam"] = NUMTEAMPLAYERS - 1
       /\ Cardinality(WaitingForCall(PL)) = sem["playersWaitTeam"]

\* ------------------------------------------------------------------------
\* C23: the signals balance.  Once every process has returned from
\* constituteTeam, playersWaitTeam, goaliesWaitTeam and playerRegistered are
\* all 0: every call has been taken and every registration collected.  In
\* every state the value of playerRegistered is at most the number of calls
\* the captain of the formation in progress has issued and not yet collected
\* (0 if no formation is in progress).
OutstandingNow ==
    IF CurrentFormation \in Formations THEN Outstanding(CurrentFormation) ELSE 0

CallsIssued == relPl[1] + relPl[2] + relGl[1] + relGl[2]
CallsTaken == Cardinality({r \in Actors : called[r] # 0})

C23_SignalsBalance ==
    /\ sem["playerRegistered"] <= OutstandingNow
    /\ AllReturned =>
          /\ sem["playersWaitTeam"] = 0
          /\ sem["goaliesWaitTeam"] = 0
          /\ sem["playerRegistered"] = 0
          /\ CallsIssued = CallsTaken
          /\ acksSent[1] + acksSent[2] = CallsIssued
          /\ acksGot[1] + acksGot[2] = CallsIssued

\* every process has returned, one team formed by a goalie and one by a
\* player, the late ones included: nothing is left in the three semaphores
C23_Witness ==
    /\ AllReturned
    /\ \E c, d \in Actors : Kind(c) = GL /\ Kind(d) = PL /\ lead[c] = 1 /\ lead[d] = 2
    /\ CallsIssued = 2 * NUMTEAMPLAYERS
    /\ sem["playersWaitTeam"] + sem["goaliesWaitTeam"] + sem["playerRegistered"] = 0
    /\ LateOf(PL) # {} /\ LateOf(GL) # {}

====
